---------------------------- MODULE Spec2Model ----------------------------
(***************************************************************************)
(* Model of src/compute_residual_stats.cpp: the per-row residual           *)
(* statistics driver compute_residual_stats, its two transformers (none,   *)
(* lognorm) and its two exported entry points.                             *)
(*                                                                         *)
(* Doubles are modelled as exact rationals <<n, d>> (d > 0, lowest terms)  *)
(* plus the IEEE specials NaN, +Inf and -Inf, so that 0.0/0.0 and x/0.0    *)
(* have the values the hardware gives them.  Rounding is not modelled.     *)
(***************************************************************************)
EXTENDS Integers, Sequences, FiniteSets, TLC

(***************************************************************************)
(* Bounds of the model.                                                    *)
(***************************************************************************)
\* largest number of matrix rows (ngenes)
MaxGenes == 2

(***************************************************************************)
(* double arithmetic                                                       *)
(***************************************************************************)
NaN == <<0, 0>>
PosInf == <<1, 0>>
NegInf == <<-1, 0>>
\* the value of an expression whose exact result is not a rational
\* (log2 of a positive number that is no power of two)
Inexact == <<0, -1>>

Abs(n) == IF n < 0 THEN -n ELSE n
Sgn(n) == IF n < 0 THEN -1 ELSE IF n = 0 THEN 0 ELSE 1

RECURSIVE GCD(_, _)
GCD(a, b) == IF b = 0 THEN a ELSE GCD(b, a % b)

\* the double with numerator n and denominator d; n/0 is NaN or an infinity
Norm(n, d) ==
    IF d = 0 THEN <<Sgn(n), 0>>
    ELSE LET g == GCD(Abs(n), Abs(d))
         IN  <<(Sgn(d) * n) \div g, Abs(d) \div g>>

\* an integer (or size_t) converted to double
Rat(n) == <<n, 1>>
IsFinite(a) == a[2] > 0

Add(a, b) ==
    IF a = Inexact \/ b = Inexact THEN Inexact
    ELSE IF a[2] = 0 /\ b[2] = 0 THEN (IF a = b THEN a ELSE NaN)
    ELSE IF a[2] = 0 THEN a
    ELSE IF b[2] = 0 THEN b
    ELSE Norm(a[1] * b[2] + b[1] * a[2], a[2] * b[2])

Neg(a) == IF a = Inexact THEN Inexact ELSE <<-a[1], a[2]>>
Sub(a, b) == Add(a, Neg(b))

Mul(a, b) ==
    IF a = Inexact \/ b = Inexact THEN Inexact
    ELSE Norm(a[1] * b[1], a[2] * b[2])

\* 1/a: 1/0 is +Inf, 1/Inf is 0, 1/NaN is NaN
Inv(a) ==
    IF a = Inexact THEN Inexact
    ELSE IF a = NaN THEN NaN
    ELSE IF a[2] = 0 THEN Rat(0)
    ELSE Norm(a[2], a[1])

\* a / b in double arithmetic: 0/0 is NaN, x/0 is an infinity
Div(a, b) == Mul(a, Inv(b))

RECURSIVE Pow2Exp(_)
\* k with 2^k = n, or -1 when the positive integer n is no power of two
Pow2Exp(n) ==
    IF n = 1 THEN 0
    ELSE IF n % 2 # 0 THEN -1
    ELSE LET k == Pow2Exp(n \div 2) IN IF k < 0 THEN -1 ELSE k + 1

\* std::log(a) / M_LN2
Log2(a) ==
    IF a = Inexact \/ a = NaN \/ a = NegInf THEN (IF a = Inexact THEN Inexact ELSE NaN)
    ELSE IF a = PosInf THEN PosInf
    ELSE IF a[1] < 0 THEN NaN
    ELSE IF a[1] = 0 THEN NegInf
    ELSE IF a[2] = 1 /\ Pow2Exp(a[1]) >= 0 THEN Rat(Pow2Exp(a[1]))
    ELSE IF a[1] = 1 /\ Pow2Exp(a[2]) >= 0 THEN Rat(-Pow2Exp(a[2]))
    ELSE Inexact

RECURSIVE Accumulate(_, _, _, _)
\* std::accumulate(first, last, init) over buf[first+1 .. last], offsets from 0
Accumulate(buf, first, last, init) ==
    IF first >= last THEN init
    ELSE Accumulate(buf, first + 1, last, Add(init, buf[first + 1]))


(***************************************************************************)
(* Inputs                                                                  *)
(***************************************************************************)
\* n/d as a double
Q(n, d) == Norm(n, d)

\* QR factorizations in LAPACK's (dgeqrf) encoding, as the caller passes
\* them: qr.col[k][i] is qr(i, k), R on and above the diagonal and the
\* Householder vectors below it; design is the matrix that was factorized.
Factorizations ==
    { \* intercept-only design of four cells, all entries 1
      [design |-> << <<1, 1, 1, 1>> >>,
       qr     |-> [nrow |-> 4, ncol |-> 1,
                   col |-> << <<Q(-2, 1), Q(1, 3), Q(1, 3), Q(1, 3)>> >>],
       qraux  |-> <<Q(3, 2)>>],
      \* intercept plus a two-group indicator, four cells
      [design |-> << <<1, 1, 1, 1>>, <<0, 0, 1, 1>> >>,
       qr     |-> [nrow |-> 4, ncol |-> 2,
                   col |-> << <<Q(-2, 1), Q(1, 3), Q(1, 3), Q(1, 3)>>,
                              <<Q(-1, 1), Q(1, 1), Q(-1, 2), Q(-1, 2)>> >>],
       qraux  |-> <<Q(3, 2), Q(4, 3)>>],
      \* one covariate (3, 4) over two cells
      [design |-> << <<3, 4>> >>,
       qr     |-> [nrow |-> 2, ncol |-> 1,
                   col |-> << <<Q(-5, 1), Q(1, 2)>> >>],
       qraux  |-> <<Q(8, 5)>>],
      \* saturated design: two coefficients over two cells
      [design |-> << <<3, 4>>, <<1, 0>> >>,
       qr     |-> [nrow |-> 2, ncol |-> 2,
                   col |-> << <<Q(-5, 1), Q(1, 2)>>, <<Q(-3, 5), Q(-4, 5)>> >>],
       qraux  |-> <<Q(8, 5), Q(0, 1)>>],
      \* saturated design: one coefficient over one cell
      [design |-> << <<1>> >>,
       qr     |-> [nrow |-> 1, ncol |-> 1, col |-> << <<Q(1, 1)>> >>],
       qraux  |-> <<Q(0, 1)>>] }

\* column counts of the matrices drawn
CellCounts == {f.qr.nrow : f \in Factorizations}

\* the rows of the two worked examples
ExampleRows == {<<2, 4, 6, 8>>, <<1, 3, 7, 15>>}

\* the entries of the rows drawn, besides the example rows
EntryVals == {0, 1}

\* the rows a matrix of nc columns is built from
RowPool(nc) == [1..nc -> EntryVals] \cup {r \in ExampleRows : Len(r) = nc}

\* the matrices: nrow x ncol, row-wise
Matrices ==
    UNION { UNION { { [nrow |-> ng, ncol |-> nc, row |-> rs] :
                        rs \in [1..ng -> RowPool(nc)] } :
                    ng \in 0..MaxGenes } :
            nc \in CellCounts }

\* size factors and pseudo-counts offered to the lognorm entry point
SizeFactorVals == {Rat(1), Rat(3)}
PseudoVals == {Rat(1)}

\* log2(x/sf + ps) is a rational for every entry of the matrix
ExactLogs(m, sizefactors, ps) ==
    \A g \in 1..m.nrow : \A j \in 1..m.ncol :
        Log2(Add(Div(Rat(m.row[g][j]), sizefactors[j]), ps)) # Inexact

(***************************************************************************)
(* The collaborators and the transformers                                  *)
(***************************************************************************)
\* beachmat get_row(r, out): row r (from 0) of the matrix, every entry
\* converted to double, written over the ncol entries at out
get_row(m, r) == [j \in 1..m.ncol |-> Rat(m.row[r + 1][j])]

\* the k-th Householder vector: 0 above position k, 1 at k, qr(i, k) below
Reflector(fqr, k) ==
    [i \in 1..fqr.nrow |->
        IF i < k THEN Rat(0) ELSE IF i = k THEN Rat(1) ELSE fqr.col[k][i]]

RECURSIVE Dot(_, _, _)
Dot(u, w, n) == IF n = 0 THEN Rat(0) ELSE Add(Dot(u, w, n - 1), Mul(u[n], w[n]))

\* H_k x = x - tau_k (v_k . x) v_k
ApplyReflector(fqr, fqraux, k, x) ==
    LET v == Reflector(fqr, k)
        s == Mul(fqraux[k], Dot(v, x, fqr.nrow))
    IN  [i \in 1..fqr.nrow |-> Sub(x[i], Mul(s, v[i]))]

RECURSIVE ApplyReflectors(_, _, _, _)
\* H_k ... H_2 H_1 x
ApplyReflectors(fqr, fqraux, k, x) ==
    IF k = 0 THEN x
    ELSE ApplyReflector(fqr, fqraux, k, ApplyReflectors(fqr, fqraux, k - 1, x))

\* linear_model_fit::multiply(rhs): Q^T rhs over the nrow(qr) doubles at rhs
multiply(fqr, fqraux, rhs) == ApplyReflectors(fqr, fqraux, fqr.ncol, rhs)

\* ++sfIt left out: every cell is scaled by the first size factor
NextSfStuck(sfIt) == sfIt
\* ++sfIt
NextSf(sfIt) == sfIt + 1

RECURSIVE LognormLoop(_, _, _, _, _, _)
\* lognorm::operator(): the while loop over [start, end), offsets from 0
LognormLoop(buf, start, end, sfIt, sizefactors, ps) ==
    IF start = end THEN buf
    ELSE LognormLoop(
            [buf EXCEPT ![start + 1] =
                Log2(Add(Div(buf[start + 1], sizefactors[sfIt + 1]), ps))],
            start + 1, end, NextSf(sfIt), sizefactors, ps)

\* lognorm::operator()(start, end): sfIt = sf.begin(), then the loop
lognorm(buf, sizefactors, ps) ==
    LognormLoop(buf, 0, Len(buf), 0, sizefactors, ps)

\* none::operator()(start, end): empty body
none(buf) == buf

\* trans(iIt, iEnd) for the transformer the entry point passed
Transformer(kind, buf, sizefactors, ps) ==
    IF kind = "lognorm" THEN lognorm(buf, sizefactors, ps) ELSE none(buf)

RECURSIVE ResidualLoop(_, _, _, _)
\* while (iIt != iEnd) { v += (*iIt) * (*iIt); ++iIt; } for iIt <= iEnd
ResidualLoop(buf, it, iEnd, v) ==
    IF it = iEnd THEN v
    ELSE ResidualLoop(buf, it + 1, iEnd, Add(v, Mul(buf[it + 1], buf[it + 1])))

\* iIt += ncoefs - 1: the last coefficient entry counted as a residual
AdvanceShort(it, nco) == it + nco - 1
\* iIt += ncoefs
Advance(it, nco) == it + nco

\* v /= ncells: the variance normalised by the cell count
DivisorCells(nce, nco) == Rat(nce)
\* the divisor of v /= ncells - ncoefs (both size_t; the statement is
\* reached with ncoefs <= ncells only, so the difference does not wrap)
Divisor(nce, nco) == Rat(nce - nco)

\* the sum divided by ncells - 1
MeanOfBessel(buf, nce) == Div(Accumulate(buf, 0, nce, Rat(0)), Rat(nce - 1))
\* std::accumulate(iIt, iEnd, 0.0) / ncells
MeanOf(buf, nce) == Div(Accumulate(buf, 0, nce, Rat(0)), Rat(nce))

\* column(0) whatever the row
columnFirst(c) == 1
\* outvar.column(counter), outmean.column(counter): the entry written
column(c) == c + 1

\* one accumulator kept running from the row before
InitialVCarry(ov, idx) == IF idx > 1 THEN ov[idx - 1] ELSE ov[idx]
\* double& v = (*curvar): the value the accumulation starts from
InitialV(ov, idx) == ov[idx]

(***************************************************************************)
(* State                                                                   *)
(***************************************************************************)
VARIABLES
    entry,      \* "none" or "lognorm": the exported function called
    qr, qraux,  \* the factorization passed
    design,     \* the design matrix qr factorizes (not seen by the code)
    inmat,      \* the matrix passed
    sf, pseudo, \* lognorm's size factors and pseudo-count
    pc,         \* position in compute_residual_stats
    call,       \* 1 or 2: which of two successive identical calls runs
    ncells, ngenes, ncoefs,
    outvar, outmean, incoming,
    counter,    \* the for loop's row index
    iIt,        \* offset of the iterator iIt from incoming.begin()
    result,     \* the list returned by the current call
    first,      \* the list returned by the first call
    divzero     \* line 39 has divided by a zero divisor

inputs == <<entry, qr, qraux, design, inmat, sf, pseudo>>
locals == <<ncells, ngenes, ncoefs, outvar, outmean, incoming, counter, iIt>>
vars == <<inputs, locals, pc, call, result, first, divzero>>

\* what a local, the result or an absent argument holds before it is set
None == <<>>

\* an allocation that is not zero-filled and finds the earlier call's values
ZerosUninit(n) == IF Len(outvar) = n THEN outvar ELSE [i \in 1..n |-> Rat(0)]
\* Rcpp::NumericMatrix(1, n) and Rcpp::NumericVector(n): n zeros
Zeros(n) == [i \in 1..n |-> Rat(0)]

InitLocals ==
    /\ pc = "start"
    /\ call = 1
    /\ ncells = 0 /\ ngenes = 0 /\ ncoefs = 0
    /\ outvar = None /\ outmean = None /\ incoming = None
    /\ counter = 0 /\ iIt = 0
    /\ result = None /\ first = None
    /\ divzero = FALSE

\* the arguments of one call: any factorization with any matrix
InitInputs ==
    /\ \E f \in Factorizations :
        /\ qr = f.qr
        /\ qraux = f.qraux
        /\ design = f.design
    /\ inmat \in Matrices
    /\ \/ /\ entry = "none"
          /\ sf = None
          /\ pseudo = Rat(0)
       \/ /\ entry = "lognorm"
          /\ sf \in [1..inmat.ncol -> SizeFactorVals]
          /\ pseudo \in PseudoVals
          /\ ExactLogs(inmat, sf, pseudo)

\* the factorization is one of a design with a row per matrix column and
\* no more coefficients than cells
WellFormed == qr.nrow = inmat.ncol /\ qr.ncol <= inmat.ncol

Init == InitInputs /\ WellFormed /\ InitLocals
InitAny == InitInputs /\ InitLocals

(***************************************************************************)
(* compute_residual_stats, statement by statement                          *)
(***************************************************************************)
\* the storage types beachmat::find_sexp_type tells apart here
SexpTypes == {"INTSXP", "REALSXP"}

\* counter < ngenes, the for loop's test
ForTest(c, ng) == IF c < ng THEN "get_row" ELSE "return"

\* lines 8-20: the matrix view, the fitter, the dimensions, the zeroed
\* outputs and the row buffer; no dimension is compared with another
Construct(M) ==
    /\ M \in {"integer_matrix", "numeric_matrix"}
    /\ ncells' = inmat.ncol
    /\ ngenes' = inmat.nrow
    /\ ncoefs' = qr.ncol
    /\ outvar' = Zeros(inmat.nrow)
    /\ outmean' = Zeros(inmat.nrow)
    /\ incoming' = Zeros(inmat.ncol)
    /\ counter' = 0
    /\ iIt' = 0
    /\ pc' = ForTest(0, inmat.nrow)
    /\ result' = None
    /\ UNCHANGED <<inputs, call, first, divzero>>

\* lines 87-94: rtype picks the matrix class, the transformer is none
compute_residual_stats_none ==
    /\ pc = "start"
    /\ entry = "none"
    /\ \E rtype \in SexpTypes :
        IF rtype = "INTSXP" THEN Construct("integer_matrix")
        ELSE Construct("numeric_matrix")

\* lines 65-74: rtype picks the matrix class, the transformer is lognorm
compute_residual_stats_lognorm ==
    /\ pc = "start"
    /\ entry = "lognorm"
    /\ \E rtype \in SexpTypes :
        IF rtype = "INTSXP" THEN Construct("integer_matrix")
        ELSE Construct("numeric_matrix")

\* lines 21-22: iIt = incoming.begin(); emat->get_row(counter, iIt)
GetRow ==
    /\ pc = "get_row"
    /\ iIt' = 0
    /\ incoming' = get_row(inmat, counter)
    /\ pc' = "trans"
    /\ UNCHANGED <<inputs, ncells, ngenes, ncoefs, outvar, outmean, counter,
                   call, result, first, divzero>>

\* line 23: trans(iIt, iEnd)
Trans ==
    /\ pc = "trans"
    /\ incoming' = Transformer(entry, incoming, sf, pseudo)
    /\ pc' = "mean"
    /\ UNCHANGED <<inputs, ncells, ngenes, ncoefs, outvar, outmean, counter,
                   iIt, call, result, first, divzero>>

\* lines 27-30: (*curmean) = std::accumulate(iIt, iEnd, 0.0) / ncells
Mean ==
    /\ pc = "mean"
    /\ outmean' = [outmean EXCEPT ![column(counter)] = MeanOf(incoming, ncells)]
    /\ pc' = "multiply"
    /\ UNCHANGED <<inputs, ncells, ngenes, ncoefs, outvar, incoming, counter,
                   iIt, call, result, first, divzero>>

\* line 31: fitter.multiply(iIt), the factorization's nrow(qr) doubles
\* lying inside the buffer
Multiply ==
    /\ pc = "multiply"
    /\ qr.nrow <= ncells
    /\ LET image == multiply(qr, qraux, SubSeq(incoming, 1, qr.nrow))
       IN  incoming' = [j \in 1..ncells |->
                           IF j <= qr.nrow THEN image[j] ELSE incoming[j]]
    /\ pc' = "advance"
    /\ UNCHANGED <<inputs, ncells, ngenes, ncoefs, outvar, outmean, counter,
                   iIt, call, result, first, divzero>>

\* lines 33-34: double& v = (*curvar); iIt += ncoefs
AdvanceIt ==
    /\ pc = "advance"
    /\ iIt' = Advance(iIt, ncoefs)
    /\ pc' = "resid"
    /\ UNCHANGED <<inputs, ncells, ngenes, ncoefs, outvar, outmean, incoming,
                   counter, call, result, first, divzero>>

\* lines 35-38: the while loop, from an iterator inside the buffer
Residual ==
    /\ pc = "resid"
    /\ iIt <= ncells
    /\ outvar' = [outvar EXCEPT ![column(counter)] =
                     ResidualLoop(incoming, iIt, ncells,
                                  InitialV(outvar, column(counter)))]
    /\ iIt' = ncells
    /\ pc' = "divide"
    /\ UNCHANGED <<inputs, ncells, ngenes, ncoefs, outmean, incoming, counter,
                   call, result, first, divzero>>

\* line 39 and the loop's ++counter: v /= ncells - ncoefs, unguarded
Divide ==
    /\ pc = "divide"
    /\ outvar' = [outvar EXCEPT ![column(counter)] =
                     Div(@, Divisor(ncells, ncoefs))]
    /\ divzero' = (divzero \/ Divisor(ncells, ncoefs) = Rat(0))
    /\ counter' = counter + 1
    /\ pc' = ForTest(counter + 1, ngenes)
    /\ UNCHANGED <<inputs, ncells, ngenes, ncoefs, outmean, incoming, iIt,
                   call, result, first>>

\* line 42: return Rcpp::List::create(outmean, outvar)
Return ==
    /\ pc = "return"
    /\ result' = <<outmean, outvar>>
    /\ pc' = "done"
    /\ UNCHANGED <<inputs, locals, call, first, divzero>>

\* the caller calls the same function again with the same arguments
CallAgain ==
    /\ pc = "done"
    /\ call = 1
    /\ first' = result
    /\ call' = 2
    /\ pc' = "start"
    /\ UNCHANGED <<inputs, locals, result, divzero>>

(***************************************************************************)
(* Undefined behaviour: accesses outside the row buffer                    *)
(***************************************************************************)
\* what the doubles behind the buffer may hold
Garbage == {Rat(0), Rat(1)}

\* line 31 with nrow(qr) > ncells: dormqr reads and writes nrow(qr) doubles
\* at a buffer of ncells; the process dies or goes on with what it read
MultiplyOverrun ==
    /\ pc = "multiply"
    /\ qr.nrow > ncells
    /\ \/ /\ pc' = "crashed"
          /\ UNCHANGED incoming
       \/ /\ \E behind \in [1..(qr.nrow - ncells) -> Garbage] :
                LET rhs == [j \in 1..qr.nrow |->
                               IF j <= ncells THEN incoming[j]
                               ELSE behind[j - ncells]]
                    image == multiply(qr, qraux, rhs)
                IN  incoming' = [j \in 1..ncells |-> image[j]]
          /\ pc' = "advance"
    /\ UNCHANGED <<inputs, ncells, ngenes, ncoefs, outvar, outmean, counter,
                   iIt, call, result, first, divzero>>

\* lines 35-38 with iIt past iEnd: iIt != iEnd stays true while the loop
\* reads beyond the buffer, until the process dies, if it does
ResidualOverrun ==
    /\ pc = "resid"
    /\ iIt > ncells
    /\ pc' \in {"crashed", "hung"}
    /\ UNCHANGED <<inputs, locals, call, result, first, divzero>>

(***************************************************************************)
(* Specifications                                                          *)
(***************************************************************************)
Next ==
    \/ compute_residual_stats_none
    \/ compute_residual_stats_lognorm
    \/ GetRow
    \/ Trans
    \/ Mean
    \/ Multiply
    \/ AdvanceIt
    \/ Residual
    \/ Divide
    \/ Return

NextTwice ==
    \/ Next
    \/ CallAgain

NextAny ==
    \/ Next
    \/ MultiplyOverrun
    \/ ResidualOverrun

\* one call whose factorization fits the matrix
Spec == Init /\ [][Next]_vars

\* such a call, made twice in succession
SpecTwice == Init /\ [][NextTwice]_vars

\* one call with any factorization and any matrix
SpecAny == InitAny /\ [][NextAny]_vars

(***************************************************************************)
(* What the statistics should be, written from the inputs alone            *)
(***************************************************************************)
RECURSIVE SumTo(_, _)
\* x[1] + ... + x[n]
SumTo(x, n) == IF n = 0 THEN Rat(0) ELSE Add(SumTo(x, n - 1), x[n])

\* x[from]^2 + ... + x[to]^2
SumSquares(x, from, to) ==
    SumTo([j \in 1..(to - from + 1) |-> Mul(x[from + j - 1], x[from + j - 1])],
          IF to < from THEN 0 ELSE to - from + 1)

\* row g (from 1) of the matrix after the value transform of this call
TransformedRow(g) ==
    [j \in 1..inmat.ncol |->
        IF entry = "lognorm"
        THEN Log2(Add(Div(Rat(inmat.row[g][j]), sf[j]), pseudo))
        ELSE Rat(inmat.row[g][j])]

\* the orthogonal image of the transformed row g
ProjectedRow(g) == multiply(qr, qraux, TransformedRow(g))

\* the rows whose iteration has finished, seen between two iterations or
\* at the return
Finished == IF pc \in {"get_row", "return", "done"} THEN 1..counter ELSE {}

\* the rows whose mean has been written
MeanWritten ==
    1..(IF pc \in {"multiply", "advance", "resid", "divide"}
        THEN counter + 1 ELSE counter)

\* sum((x - mean(x))^2) / (n - 1) of an integer row x
SampleVariance(x) ==
    LET n == Len(x)
        m == Div(SumTo([j \in 1..n |-> Rat(x[j])], n), Rat(n))
        d == [j \in 1..n |-> Sub(Rat(x[j]), m)]
    IN  Div(SumSquares(d, 1, n), Rat(n - 1))

\* one coefficient, all entries of the design equal
InterceptOnly ==
    /\ Len(design) = 1
    /\ \A j \in 1..Len(design[1]) : design[1][j] = design[1][1]

(***************************************************************************)
(* C1: every mean written, and every mean returned, is the sum of the      *)
(* row's values after the value transform (identity or log-normalize)      *)
(* divided by ncells: the transformed values, not the raw ones and not     *)
(* their projection.                                                       *)
(***************************************************************************)
C1_MeanOfTransformedRow ==
    /\ \A g \in MeanWritten :
          outmean[g] = Div(SumTo(TransformedRow(g), ncells), Rat(ncells))
    /\ pc = "done" =>
          \A g \in 1..ngenes :
             result[1][g] = Div(SumTo(TransformedRow(g), ncells), Rat(ncells))

\* the log-normalized example row: transformed mean 5/2, raw mean 13/2
C1_Witness ==
    /\ pc = "done"
    /\ entry = "lognorm"
    /\ ngenes = 2
    /\ inmat.row[2] = <<1, 3, 7, 15>>
    /\ result[1][2] = Q(5, 2)
    /\ result[1][2] # Div(SumTo(get_row(inmat, 1), ncells), Rat(ncells))
    /\ result[1][2] # Div(SumTo(incoming, ncells), Rat(ncells))

(***************************************************************************)
(* C2: with ncoefs < ncells, the variance of every finished row is the     *)
(* sum of squares of the projected buffer's entries at offsets             *)
(* ncoefs..ncells-1, and of nothing else, divided by ncells - ncoefs.      *)
(***************************************************************************)
C2_ResidualVariance ==
    ncoefs < ncells =>
        /\ (pc \in {"get_row", "return", "done"} /\ counter >= 1) =>
              outvar[counter] =
                 Div(SumSquares(incoming, ncoefs + 1, ncells), Rat(ncells - ncoefs))
        /\ \A g \in Finished :
              outvar[g] =
                 Div(SumSquares(ProjectedRow(g), ncoefs + 1, ncells),
                     Rat(ncells - ncoefs))

\* second row (0,1,1,0) under intercept + group: residuals +-1/2, 1/2
C2_Witness ==
    /\ pc = "done"
    /\ ncoefs = 2 /\ ncells = 4 /\ ngenes = 2
    /\ entry = "none"
    /\ inmat.row[1] = <<1, 1, 0, 1>>
    /\ inmat.row[2] = <<0, 1, 1, 0>>
    /\ incoming[1] # Rat(0)
    /\ result[2][2] = Q(1, 2)

(***************************************************************************)
(* C3: with ncells = ncoefs and at least one row, the call never divides   *)
(* by zero unguarded, and a list it returns holds no finite variance.      *)
(***************************************************************************)
C3_DegenerateIsGuarded ==
    (pc # "start" /\ ncells = ncoefs /\ ngenes >= 1) =>
        /\ ~divzero
        /\ pc = "done" => \A g \in 1..ngenes : ~IsFinite(result[2][g])

(***************************************************************************)
(* C4: a call whose factorization has another cell count than the matrix   *)
(* has columns, or more coefficients than the matrix has columns, is       *)
(* stopped before the first row iteration: no row is read, transformed or  *)
(* projected and no output entry is written.                               *)
(***************************************************************************)
C4_MismatchIsRejected ==
    (qr.nrow # inmat.ncol \/ qr.ncol > inmat.ncol) =>
        /\ pc \notin {"trans", "mean", "multiply", "advance", "resid", "divide",
                      "crashed", "hung"}
        /\ counter = 0

(***************************************************************************)
(* C5: identity transform, intercept-only design, ncells >= 2: the         *)
(* variance of every finished row x is sum((x - mean(x))^2)/(ncells - 1);  *)
(* the row (2,4,6,8) has mean 5 and variance 20/3.                         *)
(***************************************************************************)
C5_InterceptOnlySampleVariance ==
    (entry = "none" /\ InterceptOnly /\ ncells >= 2) =>
        \A g \in Finished :
            /\ outvar[g] = SampleVariance(inmat.row[g])
            /\ inmat.row[g] = <<2, 4, 6, 8>> =>
                  (outmean[g] = Rat(5) /\ outvar[g] = Q(20, 3))

C5_Witness ==
    /\ pc = "done"
    /\ entry = "none"
    /\ InterceptOnly
    /\ ncells = 4
    /\ ngenes = 2
    /\ inmat.row[1] = <<0, 1, 0, 0>>
    /\ inmat.row[2] = <<2, 4, 6, 8>>
    /\ result[1] = <<Q(1, 4), Rat(5)>>
    /\ result[2] = <<Q(1, 4), Q(20, 3)>>

(***************************************************************************)
(* C6: under lognorm, for the first and every later row, the buffer holds  *)
(* the raw row until the transform and log2(x/sf[j] + pseudo) at every     *)
(* position j, with the size factor of the same position, from the         *)
(* transform until the projection; the mean is not written before the      *)
(* transform, and the buffer keeps its length.                             *)
(***************************************************************************)
C6_LognormAlignedBeforeMean ==
    entry = "lognorm" =>
        /\ pc \in {"trans", "mean", "multiply", "advance", "resid", "divide"} =>
              Len(incoming) = ncells
        /\ pc = "trans" =>
              /\ \A j \in 1..ncells : incoming[j] = Rat(inmat.row[counter + 1][j])
              /\ outmean[counter + 1] = Rat(0)
        /\ pc = "mean" =>
              /\ \A j \in 1..ncells :
                    incoming[j] =
                       Log2(Add(Div(Rat(inmat.row[counter + 1][j]), sf[j]), pseudo))
              /\ outmean[counter + 1] = Rat(0)
        /\ pc = "multiply" =>
              \A j \in 1..ncells :
                 incoming[j] =
                    Log2(Add(Div(Rat(inmat.row[counter + 1][j]), sf[j]), pseudo))

\* second row (1,3,7,15) with size factors (1,3,1,1): logs (1,1,3,4)
C6_Witness ==
    /\ pc = "mean"
    /\ entry = "lognorm"
    /\ counter = 1
    /\ inmat.row[1] = <<1, 0, 1, 0>>
    /\ inmat.row[2] = <<1, 3, 7, 15>>
    /\ sf = <<Rat(1), Rat(3), Rat(1), Rat(1)>>
    /\ incoming = <<Rat(1), Rat(1), Rat(3), Rat(4)>>

(***************************************************************************)
(* C7: the mean and the variance of a finished row are a function of that  *)
(* row's contents, the factorization and the transform parameters alone:   *)
(* whatever the other rows hold and wherever the row stands, and so equal  *)
(* rows have equal results.                                                *)
(***************************************************************************)
RowStats(g) ==
    <<Div(SumTo(TransformedRow(g), inmat.ncol), Rat(inmat.ncol)),
      Div(SumSquares(ProjectedRow(g), qr.ncol + 1, inmat.ncol),
          Rat(inmat.ncol - qr.ncol))>>

C7_RowsIndependent ==
    /\ \A g \in Finished : <<outmean[g], outvar[g]>> = RowStats(g)
    /\ \A g, h \in Finished :
          inmat.row[g] = inmat.row[h] =>
             (outmean[g] = outmean[h] /\ outvar[g] = outvar[h])

\* the same row after a different one, in the buffer the first one used
C7_Witness ==
    /\ pc = "done"
    /\ call = 1
    /\ ngenes = 2
    /\ ncells = 4
    /\ inmat.row[1] = <<2, 4, 6, 8>>
    /\ inmat.row[2] = <<0, 0, 1, 0>>
    /\ IsFinite(result[2][1]) /\ result[2][1] # Rat(0)
    /\ IsFinite(result[2][2]) /\ result[2][2] # Rat(0)
    /\ result[2][1] # result[2][2]

(***************************************************************************)
(* C8: the second of two successive calls with the same arguments returns  *)
(* what the first returned.                                                *)
(***************************************************************************)
C8_SecondCallSameResult ==
    (pc = "done" /\ call = 2) => result = first

C8_Witness ==
    /\ pc = "done"
    /\ call = 2
    /\ entry = "lognorm"
    /\ ngenes = 2
    /\ first # None
    /\ \A g \in 1..2 : IsFinite(first[2][g]) /\ first[2][g] # Rat(0)

(***************************************************************************)
(* C9: after construction both outputs have ngenes entries; a step of      *)
(* iteration i changes no output entry but mean[i] and variance[i], so an  *)
(* entry of a finished row never changes again; the list returned is       *)
(* (mean, variance), entry g belonging to matrix row g.                    *)
(***************************************************************************)
C9_OutputsFilledInRowOrder ==
    [][ /\ pc # "start" =>
            /\ Len(outmean') = ngenes /\ Len(outvar') = ngenes
            /\ \A k \in 1..ngenes :
                  k # counter + 1 =>
                     (outmean'[k] = outmean[k] /\ outvar'[k] = outvar[k])
        /\ pc' = "done" =>
            /\ result' = <<outmean', outvar'>>
            /\ Len(result'[1]) = inmat.nrow /\ Len(result'[2]) = inmat.nrow
            /\ \A g \in 1..inmat.nrow :
                  result'[1][g] =
                     Div(SumTo(TransformedRow(g), inmat.ncol), Rat(inmat.ncol))
      ]_vars

\* row 0 finished and written, row 1 not yet touched
C9_Witness ==
    /\ pc = "get_row"
    /\ counter = 1
    /\ ngenes = 2
    /\ outmean[1] # Rat(0) /\ outvar[1] # Rat(0)
    /\ outmean[2] = Rat(0) /\ outvar[2] = Rat(0)

(***************************************************************************)
(* C10: whenever the row loop is entered, also with ncoefs > ncells, the   *)
(* iterator advanced by ncoefs lies within [0, ncells], the residual loop  *)
(* ends with the iterator at ncells instead of running on behind the       *)
(* buffer, and the call returns after ngenes iterations.                   *)
(***************************************************************************)
C10_CursorStaysInBuffer ==
    /\ pc = "resid" => iIt \in 0..ncells
    /\ pc = "divide" => iIt = ncells
    /\ pc \in {"return", "done"} => counter = ngenes
    /\ pc # "hung"

=============================================================================
